---- MODULE Spec2Model ----
(***************************************************************************)
(* A model of messages.go of mailgun-go: the Message builder (NewMessage   *)
(* and its mutators), validateMessage / validateStringList, and            *)
(* mailgunImpl.Send with the HTTP transport as a nondeterministic          *)
(* collaborator.  Send blocks in the transport for one network round trip; *)
(* the Message is not locked meanwhile, so calls made on it from another   *)
(* goroutine run during the wait.                                          *)
(***************************************************************************)
EXTENDS Naturals, Sequences, FiniteSets, TLC

VARIABLES
    msg,     \* the *Message under construction (all fields of the struct)
    hist,    \* the arguments the caller has passed so far (call history)
    last,    \* the most recent call: NewMessage, Send, SendNil (Send(nil)),
             \* AddVariable with its arguments and the error it returned, or
             \* Mutator for any of the mutators that return nothing
    mes,     \* first result of the most recent Send
    id,      \* second result of the most recent Send
    err,     \* third result of the most recent Send
    calls,   \* number of transport invocations made by the most recent Send
    pc,      \* where the goroutine that calls Send is: "idle", outside Send,
             \* or "posted", inside Send waiting in PostResponseFromJSON
    reply,   \* what the transport answered to that Send
    wire,    \* values of the payload handed to the transport by that Send
    files,   \* file entries of the payload handed to the transport
    arg,     \* argument of a direct call of a validation function
    out,     \* result of that direct call
    scope    \* which call sequences are explored on the Message: "broad",
             \* few calls of any mix, or "long", campaigns added on and on
             \* with one other entry or option (see Fits)

vars ==
    <<msg, hist, last, mes, id, err, calls, pc, reply, wire, files, arg, out,
      scope>>

-----------------------------------------------------------------------------
(* Bounds of the model *)

\* cost of the mutator calls explored on one Message (see Fits). Broad: room
\* for two entries or options of any kind, or one and a campaign, or three
\* campaigns. Long: room for one campaign more than the limit together with
\* one other entry or option, added before, between or after the campaigns
MaxCost == 6
\* longest list handed to a direct call of validateStringList
MaxListLen == 3
\* most entries that to, cc, bcc and tags hold together in a Message handed
\* directly to validateMessage
MaxEntries == 2

(* Program constant: the campaign limit of validateMessage *)
MaxCampaigns == 3

-----------------------------------------------------------------------------
(* Input values *)

NilError == "<nil>"
FromVals == {"", "a@example.com"}
SubjectVals == {"", "hi"}
TextVals == {"", "hello"}
HtmlVals == {"", "<b>hello</b>"}
Strs == {"", "a", "b"}
FileVals == {"x.png", "y.png"}
HeaderNames == {"H", "K"}
HeaderVals == {"1", "2"}
VarNames == {"n"}

\* values handed to AddVariable: a Go value is its kind and its content
JsonVals ==
    { [kind |-> "string", v |-> "x"],
      [kind |-> "number", v |-> "7"],
      [kind |-> "chan",   v |-> ""] }

\* time.Time values handed to SetDeliveryTime
Times ==
    { [wday |-> "Tue", day |-> 5, month |-> "Jan", year |-> 2021,
       hour |-> 9, min |-> 4, sec |-> 5, zone |-> "UTC"],
      [wday |-> "Fri", day |-> 31, month |-> "Dec", year |-> 2021,
       hour |-> 23, min |-> 59, sec |-> 0, zone |-> "MST"] }

-----------------------------------------------------------------------------
(* Go slices, maps and pointers: nil is distinct from empty *)

NilSlice == [nil |-> TRUE, elems |-> <<>>]
Slice(s) == [nil |-> FALSE, elems |-> s]
len(sl) == Len(sl.elems)

\* append gone wrong: the new element put in front
appendFront(sl, x) == [nil |-> FALSE, elems |-> <<x>> \o sl.elems]

\* append(sl, x): the result is never nil
append(sl, x) == [nil |-> FALSE, elems |-> Append(sl.elems, x)]

EmptyMap == [k \in {} |-> ""]
NilMap == [nil |-> TRUE, m |-> EmptyMap]
MapPut(mp, k, v) ==
    [nil |-> FALSE,
     m |-> [q \in (DOMAIN mp.m) \cup {k} |-> IF q = k THEN v ELSE mp.m[q]]]

ZeroTime == CHOOSE t \in Times : t.zone = "UTC"
NilTime == [nil |-> TRUE, at |-> ZeroTime]

-----------------------------------------------------------------------------
(* type Message struct, and NewMessage *)

NewMessage(from, subject, text, to) ==
    [ from |-> from, to |-> to, cc |-> NilSlice, bcc |-> NilSlice,
      subject |-> subject, text |-> text, html |-> "",
      tags |-> NilSlice, campaigns |-> NilSlice,
      dkim |-> FALSE, deliveryTime |-> NilTime,
      attachments |-> NilSlice, inlines |-> NilSlice,
      testMode |-> FALSE, tracking |-> FALSE,
      trackingClicks |-> FALSE, trackingOpens |-> FALSE,
      headers |-> NilMap, variables |-> NilMap,
      dkimSet |-> FALSE, trackingSet |-> FALSE,
      trackingClicksSet |-> FALSE, trackingOpensSet |-> FALSE ]

-----------------------------------------------------------------------------
(* Pure functions *)

\* yesNo translates a boolean into the yes/no setting of the Mailgun API
yesNo(b) == IF b THEN "yes" ELSE "no"

\* the for loop of validateStringList from index i on: an empty element
\* returns false at once, any other element sets hasOne
RECURSIVE ScanList(_, _, _)
ScanList(elems, i, hasOne) ==
    IF i > Len(elems) THEN hasOne
    ELSE IF elems[i] = "" THEN FALSE
    ELSE ScanList(elems, i + 1, hasOne \/ TRUE)

\* validateStringList gone wrong: hasOne starts out true, so that a present
\* list with no entry passes
validateStringListLax(list, requireOne) ==
    IF list.nil THEN ~requireOne
    ELSE ScanList(list.elems, 1, TRUE)

validateStringList(list, requireOne) ==
    IF list.nil THEN ~requireOne
    ELSE ScanList(list.elems, 1, FALSE)

\* validateMessage gone wrong: cc is checked twice and bcc never
validateFieldsSkipsBcc(m) ==
    IF m.from = "" THEN FALSE
    ELSE IF ~validateStringList(m.to, TRUE) THEN FALSE
    ELSE IF ~validateStringList(m.cc, FALSE) THEN FALSE
    ELSE IF ~validateStringList(m.cc, FALSE) THEN FALSE
    ELSE IF ~validateStringList(m.tags, FALSE) THEN FALSE
    ELSE IF ~validateStringList(m.campaigns, FALSE)
            \/ len(m.campaigns) > MaxCampaigns THEN FALSE
    ELSE IF m.text = "" THEN FALSE
    ELSE TRUE

\* validateMessage gone wrong: the campaign limit is off by one
validateFieldsOffByOne(m) ==
    IF m.from = "" THEN FALSE
    ELSE IF ~validateStringList(m.to, TRUE) THEN FALSE
    ELSE IF ~validateStringList(m.cc, FALSE) THEN FALSE
    ELSE IF ~validateStringList(m.bcc, FALSE) THEN FALSE
    ELSE IF ~validateStringList(m.tags, FALSE) THEN FALSE
    ELSE IF ~validateStringList(m.campaigns, FALSE)
            \/ len(m.campaigns) > MaxCampaigns + 1 THEN FALSE
    ELSE IF m.text = "" THEN FALSE
    ELSE TRUE

\* validateMessage on a non-nil *Message
validateFields(m) ==
    IF m.from = "" THEN FALSE
    ELSE IF ~validateStringList(m.to, TRUE) THEN FALSE
    ELSE IF ~validateStringList(m.cc, FALSE) THEN FALSE
    ELSE IF ~validateStringList(m.bcc, FALSE) THEN FALSE
    ELSE IF ~validateStringList(m.tags, FALSE) THEN FALSE
    ELSE IF ~validateStringList(m.campaigns, FALSE)
            \/ len(m.campaigns) > MaxCampaigns THEN FALSE
    ELSE IF m.text = "" THEN FALSE
    ELSE TRUE

\* validateMessage: ref is "nil" for the nil pointer, "msg" for a pointer to m
validateMessage(ref, m) ==
    IF ref = "nil" THEN FALSE ELSE validateFields(m)

\* json.Marshal: a string is quoted, a number is its digits, a channel cannot
\* be encoded
jsonMarshal(val) ==
    CASE val.kind = "string" -> [err |-> NilError, j |-> "\"" \o val.v \o "\""]
      [] val.kind = "number" -> [err |-> NilError, j |-> val.v]
      [] OTHER -> [err |-> "json: unsupported type: chan int", j |-> ""]

\* two decimal digits, zero padded ("15", "04", "05" of the layout)
Pad2(n) == IF n < 10 THEN "0" \o ToString(n) ELSE ToString(n)

\* time.Format with the layout "Mon, 2 Jan 2006 15:04:05 MST"
FormatTime(t) ==
    t.wday \o ", " \o ToString(t.day) \o " " \o t.month \o " "
      \o ToString(t.year) \o " " \o Pad2(t.hour) \o ":" \o Pad2(t.min)
      \o ":" \o Pad2(t.sec) \o " " \o t.zone

-----------------------------------------------------------------------------
(* The payload Send builds *)

KV(name, value) == [name |-> name, value |-> value]

\* one value per element of a slice, in slice order (for _, x := range list)
RECURSIVE RangeValues(_, _, _)
RangeValues(name, elems, i) ==
    IF i > Len(elems) THEN <<>>
    ELSE <<KV(name, elems[i])>> \o RangeValues(name, elems, i + 1)

\* the orders in which a range over a Go map may visit its keys
KeyOrders(mp) ==
    LET n == Cardinality(DOMAIN mp.m)
    IN  { o \in [1..n -> DOMAIN mp.m] : \A i, j \in 1..n : i # j => o[i] # o[j] }

\* one value per map entry, the name prefixed, in the order of the visit
RECURSIVE RangeMap(_, _, _, _)
RangeMap(prefix, mp, order, i) ==
    IF i > Len(order) THEN <<>>
    ELSE <<KV(prefix \o order[i], mp.m[order[i]])>>
           \o RangeMap(prefix, mp, order, i + 1)

Opt(cond, name, value) == IF cond THEN <<KV(name, value)>> ELSE <<>>

\* the AddValue calls of Send, in program order
PayloadValues(m, horder, vorder) ==
    <<KV("from", m.from), KV("subject", m.subject), KV("text", m.text)>>
      \o RangeValues("to", m.to.elems, 1)
      \o RangeValues("cc", m.cc.elems, 1)
      \o RangeValues("bcc", m.bcc.elems, 1)
      \o RangeValues("o:tag", m.tags.elems, 1)
      \o RangeValues("o:campaign", m.campaigns.elems, 1)
      \o Opt(m.html # "", "html", m.html)
      \o Opt(m.dkimSet, "o:dkim", yesNo(m.dkim))
      \o Opt(~m.deliveryTime.nil, "o:deliverytime", FormatTime(m.deliveryTime.at))
      \o Opt(m.testMode, "o:testmode", "yes")
      \o Opt(m.trackingSet, "o:tracking", yesNo(m.tracking))
      \o Opt(m.trackingClicksSet, "o:tracking-clicks", yesNo(m.trackingClicks))
      \o Opt(m.trackingOpensSet, "o:tracking-opens", yesNo(m.trackingOpens))
      \o (IF ~m.headers.nil THEN RangeMap("h:", m.headers, horder, 1) ELSE <<>>)
      \o (IF ~m.variables.nil THEN RangeMap("v:", m.variables, vorder, 1) ELSE <<>>)

\* the AddFile calls of Send, in program order
PayloadFiles(m) ==
    (IF ~m.attachments.nil THEN RangeValues("attachment", m.attachments.elems, 1)
     ELSE <<>>)
      \o (IF ~m.inlines.nil THEN RangeValues("inline", m.inlines.elems, 1)
          ELSE <<>>)

\* what PostResponseFromJSON may do: fail (the response possibly half decoded)
\* or succeed with the decoded {message, id}
NoReply == [err |-> NilError, message |-> "", id |-> ""]
TransportOutcomes ==
    { [err |-> "transport error", message |-> "", id |-> ""],
      [err |-> "transport error", message |-> "Queued", id |-> ""],
      [err |-> NilError, message |-> "Queued", id |-> "abc123"],
      [err |-> NilError, message |-> "", id |-> ""] }

-----------------------------------------------------------------------------
(* The caller's view: what was passed so far, and what the last call returned *)

NoHistory(to) ==
    [ given |-> Len(to), to |-> to, cc |-> <<>>, bcc |-> <<>>, tags |-> <<>>, campaigns |-> <<>>,
      attachments |-> <<>>, inlines |-> <<>>,
      dkim |-> "never", tracking |-> "never",
      trackingClicks |-> "never", trackingOpens |-> "never",
      deliveryTime |-> [called |-> FALSE, replaced |-> FALSE, at |-> ZeroTime],
      beyond |-> FALSE ]

\* the results of a Send are those of the most recent call only: a mutator
\* called when no Send is under way clears them
NoSend ==
    /\ mes' = ""
    /\ id' = ""
    /\ err' = NilError
    /\ calls' = 0
    /\ reply' = NoReply
    /\ wire' = <<>>
    /\ files' = <<>>

\* the entries and options, campaigns apart, that mutator calls have put on a
\* Message: recipients added after construction, entries of the other lists
\* and maps, options set
B(b) == IF b THEN 1 ELSE 0
Others(m, h) ==
    (len(m.to) - h.given) + len(m.cc) + len(m.bcc) + len(m.tags)
      + len(m.attachments) + len(m.inlines)
      + Cardinality(DOMAIN m.headers.m)
      + Cardinality(DOMAIN m.variables.m)
      + B(m.html # "") + B(m.testMode) + B(~m.deliveryTime.nil)
      + B(m.dkimSet) + B(m.trackingSet) + B(m.trackingClicksSet)
      + B(m.trackingOpensSet)

\* the Messages explored. Broad: a campaign costs 2 and any other entry or
\* option 3, within MaxCost. Long: a campaign costs 1 and the one other entry
\* or option 2
Fits(m, h) ==
    IF scope = "long"
    THEN len(m.campaigns) + 2 * Others(m, h) <= MaxCost /\ Others(m, h) <= 1
    ELSE 2 * len(m.campaigns) + 3 * Others(m, h) <= MaxCost

\* the campaigns added: any of Strs, or when campaigns are added on and on,
\* an empty and a non-empty one
CampaignVals == IF scope = "long" THEN {"", "c"} ELSE Strs

NoValue == [kind |-> "", v |-> ""]
Call(name) == [op |-> name, variable |-> "", value |-> NoValue, err |-> NilError]

\* a Send is waiting for the transport: the payload it posted stays as it is
InFlight == UNCHANGED <<mes, id, err, calls, reply, wire, files>>

\* one mutator call: the message after it, the call as the caller sees it;
\* hist.beyond records that a call changed the Message when it already held
\* more campaigns than the limit. The call may come while a Send of the
\* Message waits for the transport
Called(c, m, h) ==
    /\ Fits(m, h)
    /\ msg' = m
    /\ hist' = [h EXCEPT !.beyond =
                    @ \/ (len(msg.campaigns) > MaxCampaigns /\ m # msg)]
    /\ last' = c
    /\ IF pc = "posted" THEN InFlight ELSE NoSend
    /\ UNCHANGED <<pc, arg, out, scope>>

\* the variadic to of NewMessage: no argument (nil), an empty slice spread, or
\* one recipient, empty or not; further recipients come by AddRecipient
InitialTo ==
    {NilSlice, Slice(<<>>), Slice(<<"">>), Slice(<<"a">>)}

Constructed ==
    /\ \E from \in FromVals, subject \in {"hi"}, text \in TextVals,
          to \in InitialTo :
          /\ msg = NewMessage(from, subject, text, to)
          /\ hist = NoHistory(to.elems)
    /\ last = Call("NewMessage")
    /\ mes = ""
    /\ id = ""
    /\ err = NilError
    /\ calls = 0
    /\ pc = "idle"
    /\ reply = NoReply
    /\ wire = <<>>
    /\ files = <<>>
    /\ arg = "-"
    /\ out = "-"

Init == Constructed /\ scope = "broad"

-----------------------------------------------------------------------------
(* The mutators of Message *)

AddAttachment ==
    \E attachment \in FileVals :
        Called(Call("Mutator"),
               [msg EXCEPT !.attachments = append(msg.attachments, attachment)],
               [hist EXCEPT !.attachments = Append(@, attachment)])

AddInline ==
    \E inline \in FileVals :
        Called(Call("Mutator"),
               [msg EXCEPT !.inlines = append(msg.inlines, inline)],
               [hist EXCEPT !.inlines = Append(@, inline)])

AddRecipient ==
    \E recipient \in Strs :
        Called(Call("Mutator"),
               [msg EXCEPT !.to = append(msg.to, recipient)],
               [hist EXCEPT !.to = Append(@, recipient)])

AddCC ==
    \E recipient \in Strs :
        Called(Call("Mutator"),
               [msg EXCEPT !.cc = append(msg.cc, recipient)],
               [hist EXCEPT !.cc = Append(@, recipient)])

AddBCC ==
    \E recipient \in Strs :
        Called(Call("Mutator"),
               [msg EXCEPT !.bcc = append(msg.bcc, recipient)],
               [hist EXCEPT !.bcc = Append(@, recipient)])

SetHtml ==
    \E html \in HtmlVals :
        Called(Call("Mutator"), [msg EXCEPT !.html = html], hist)

AddTag ==
    \E tag \in Strs :
        Called(Call("Mutator"),
               [msg EXCEPT !.tags = append(msg.tags, tag)],
               [hist EXCEPT !.tags = Append(@, tag)])

AddCampaign ==
    \E campaign \in CampaignVals :
        Called(Call("Mutator"),
               [msg EXCEPT !.campaigns = append(msg.campaigns, campaign)],
               [hist EXCEPT !.campaigns = Append(@, campaign)])

SetDKIM ==
    \E dkim \in BOOLEAN :
        Called(Call("Mutator"),
               [msg EXCEPT !.dkim = dkim, !.dkimSet = TRUE],
               [hist EXCEPT !.dkim = ToString(dkim)])

EnableTestMode ==
    Called(Call("Mutator"), [msg EXCEPT !.testMode = TRUE], hist)

\* SetDeliveryTime gone wrong: an installed schedule is kept
SetDeliveryTimeOnce ==
    \E dt \in Times :
        Called(Call("Mutator"),
               IF msg.deliveryTime.nil
               THEN [msg EXCEPT !.deliveryTime = [nil |-> FALSE, at |-> dt]]
               ELSE msg,
               [hist EXCEPT !.deliveryTime =
                         [called |-> TRUE, replaced |-> @.called, at |-> dt]])

SetDeliveryTime ==
    \E dt \in Times :
        Called(Call("Mutator"),
               [msg EXCEPT !.deliveryTime = [nil |-> FALSE, at |-> dt]],
               [hist EXCEPT !.deliveryTime =
                         [called |-> TRUE, replaced |-> @.called, at |-> dt]])

SetTracking ==
    \E tracking \in BOOLEAN :
        Called(Call("Mutator"),
               [msg EXCEPT !.tracking = tracking, !.trackingSet = TRUE],
               [hist EXCEPT !.tracking = ToString(tracking)])

SetTrackingClicks ==
    \E trackingClicks \in BOOLEAN :
        Called(Call("Mutator"),
               [msg EXCEPT !.trackingClicks = trackingClicks,
                           !.trackingClicksSet = TRUE],
               [hist EXCEPT !.trackingClicks = ToString(trackingClicks)])

\* SetTrackingOpens gone wrong: the flag takes the value, so that false reads
\* as never set
SetTrackingOpensFlagFromValue ==
    \E trackingOpens \in BOOLEAN :
        Called(Call("Mutator"),
               [msg EXCEPT !.trackingOpens = trackingOpens,
                           !.trackingOpensSet = trackingOpens],
               [hist EXCEPT !.trackingOpens = ToString(trackingOpens)])

SetTrackingOpens ==
    \E trackingOpens \in BOOLEAN :
        Called(Call("Mutator"),
               [msg EXCEPT !.trackingOpens = trackingOpens,
                           !.trackingOpensSet = TRUE],
               [hist EXCEPT !.trackingOpens = ToString(trackingOpens)])

AddHeader ==
    \E header \in HeaderNames, value \in HeaderVals :
        Called(Call("Mutator"),
               [msg EXCEPT !.headers = MapPut(msg.headers, header, value)],
               hist)

\* AddVariable gone wrong: the map is made before the error is looked at
AddVariableResultEager(m, variable, j) ==
    IF j.err # NilError THEN [m EXCEPT !.variables.nil = FALSE]
    ELSE [m EXCEPT !.variables = MapPut(m.variables, variable, j.j)]

\* the message after AddVariable(variable, value), given what json.Marshal
\* returned: an error returns before the map is touched
AddVariableResult(m, variable, j) ==
    IF j.err # NilError THEN m
    ELSE [m EXCEPT !.variables = MapPut(m.variables, variable, j.j)]

AddVariable ==
    \E variable \in VarNames, value \in JsonVals :
        LET j == jsonMarshal(value)
        IN  Called([op |-> "AddVariable", variable |-> variable,
                    value |-> value, err |-> j.err],
                   AddVariableResult(msg, variable, j), hist)

-----------------------------------------------------------------------------
(* mailgunImpl.Send *)

\* Send gone wrong: the response is copied out whatever err is
SendReturnUnguarded(outcome) ==
    [mes |-> outcome.message, id |-> outcome.id, err |-> outcome.err]

\* what Send returns once the transport has answered: the response is copied
\* out only if err == nil
SendReturn(outcome) ==
    [ mes |-> IF outcome.err = NilError THEN outcome.message ELSE "",
      id  |-> IF outcome.err = NilError THEN outcome.id ELSE "",
      err |-> outcome.err ]

\* Send gone wrong: the error is set and the request is posted all the same
SendInvalidFallsThrough ==
    /\ mes' = ""
    /\ id' = ""
    /\ err' = "Message not valid"
    /\ calls' = 1
    /\ pc' = "idle"
    /\ reply' = NoReply
    /\ wire' = <<>>
    /\ files' = <<>>

\* the branch of Send taken when validateMessage is false: Send returns at
\* once
SendInvalid ==
    /\ mes' = ""
    /\ id' = ""
    /\ err' = "Message not valid"
    /\ calls' = 0
    /\ pc' = "idle"
    /\ reply' = NoReply
    /\ wire' = <<>>
    /\ files' = <<>>

\* the else branch up to the call of PostResponseFromJSON: build the payload
\* from the Message as it is now and post it; Send then waits for the answer
SendValid(m) ==
    /\ \E horder \in KeyOrders(m.headers), vorder \in KeyOrders(m.variables) :
          wire' = PayloadValues(m, horder, vorder)
    /\ files' = PayloadFiles(m)
    /\ calls' = 1
    /\ pc' = "posted"
    /\ reply' = NoReply
    /\ mes' = ""
    /\ id' = ""
    /\ err' = NilError

\* Send gone wrong: the attachments are dropped once posted
MessageAfterSendCleared(m) == [m EXCEPT !.attachments = NilSlice]

\* the Message after Send(message): Send assigns no field of *message
MessageAfterSend(m) == m

\* Send(message) is called, message being nil or the Message under
\* construction: it validates, and returns or posts the payload
Send ==
    /\ pc = "idle"
    /\ \E ref \in {"nil", "msg"} :
        /\ IF ~validateMessage(ref, msg) THEN SendInvalid ELSE SendValid(msg)
        /\ last' = Call(IF ref = "nil" THEN "SendNil" ELSE "Send")
        /\ msg' = IF ref = "nil" THEN msg ELSE MessageAfterSend(msg)
        /\ UNCHANGED <<hist, arg, out, scope>>

\* PostResponseFromJSON returns to the waiting Send, which interprets the
\* answer and returns; it reads the Message no more
PostResponseFromJSON ==
    /\ pc = "posted"
    /\ \E outcome \in TransportOutcomes :
        LET r == SendReturn(outcome)
        IN  /\ reply' = outcome
            /\ mes' = r.mes
            /\ id' = r.id
            /\ err' = r.err
    /\ pc' = "idle"
    /\ UNCHANGED <<msg, hist, last, calls, wire, files, arg, out, scope>>

-----------------------------------------------------------------------------
(* The builder and Send: any sequence of mutator calls and Sends, the
   mutator calls also while a Send waits for the transport *)

Next ==
    \/ AddAttachment
    \/ AddInline
    \/ AddRecipient
    \/ AddCC
    \/ AddBCC
    \/ SetHtml
    \/ AddTag
    \/ AddCampaign
    \/ SetDKIM
    \/ EnableTestMode
    \/ SetDeliveryTime
    \/ SetTracking
    \/ SetTrackingClicks
    \/ SetTrackingOpens
    \/ AddHeader
    \/ AddVariable
    \/ Send
    \/ PostResponseFromJSON

Spec == Init /\ [][Next]_vars

\* the same builder and Send, followed along the campaigns of a Message
InitLong == Constructed /\ scope = "long"

SpecLong == InitLong /\ [][Next]_vars

-----------------------------------------------------------------------------
(* validateStringList called directly, on any list *)

Bool(b) == IF b THEN "true" ELSE "false"

SeqsUpTo(S, n) == UNION {[1..k -> S] : k \in 0..n}

\* a []string: nil, or a slice of up to n elements
SlicesUpTo(S, n) == {NilSlice} \cup {Slice(s) : s \in SeqsUpTo(S, n)}

\* the builder and Send at rest
Idle ==
    /\ last = Call("NewMessage")
    /\ mes = ""
    /\ id = ""
    /\ err = NilError
    /\ calls = 0
    /\ pc = "idle"
    /\ reply = NoReply
    /\ wire = <<>>
    /\ files = <<>>
    /\ out = "-"
    /\ scope = "broad"

InitList ==
    /\ arg \in [list : SlicesUpTo(Strs, MaxListLen), requireOne : BOOLEAN]
    /\ msg = NewMessage("", "", "", NilSlice)
    /\ hist = NoHistory(<<>>)
    /\ Idle

CallValidateStringList ==
    /\ out = "-"
    /\ out' = Bool(validateStringList(arg.list, arg.requireOne))
    /\ UNCHANGED <<msg, hist, last, mes, id, err, calls, pc, reply, wire,
                   files, arg, scope>>

SpecList == InitList /\ [][CallValidateStringList]_vars

-----------------------------------------------------------------------------
(* validateMessage called directly, on any combination of field values *)

\* the fields validateMessage never reads, all set
Decorated(m) ==
    [m EXCEPT !.html = "<b>hello</b>", !.dkim = TRUE, !.dkimSet = TRUE,
              !.testMode = TRUE, !.tracking = TRUE, !.trackingSet = TRUE,
              !.deliveryTime = [nil |-> FALSE, at |-> ZeroTime],
              !.attachments = Slice(<<"">>), !.inlines = Slice(<<"x.png">>),
              !.headers = MapPut(NilMap, "", ""),
              !.variables = MapPut(NilMap, "n", "\"x\"")]

\* a list only the Add* mutators write: nil until the first call, and from
\* then on the slice append returns, which has at least one element
AppendedUpTo(S, n) == SlicesUpTo(S, n) \ {Slice(<<>>)}

\* campaigns: never added to, or one entry up to one more than the limit, with
\* and without an empty entry
CampaignLists ==
    {NilSlice, Slice(<<"">>), Slice(<<"c", "">>)}
      \cup {Slice([i \in 1..k |-> "c"]) : k \in 1..(MaxCampaigns + 1)}

\* the Messages handed to validateMessage are those NewMessage and the
\* mutators build: to is the variadic argument of NewMessage (nil, an empty
\* slice, or recipients) with the recipients added later; cc, bcc, tags and
\* campaigns are nil or hold what was appended

InitValidate ==
    /\ \/ /\ arg = "nil"
          /\ msg = NewMessage("a@example.com", "hi", "hello", Slice(<<"a">>))
       \/ /\ arg = "msg"
          /\ \E to \in SlicesUpTo({"", "a"}, MaxEntries) :
             \E cc \in AppendedUpTo({"", "a"}, MaxEntries - len(to)) :
             \E bcc \in AppendedUpTo({"", "a"}, MaxEntries - len(to) - len(cc)) :
             \E tags \in AppendedUpTo({"", "a"},
                                      MaxEntries - len(to) - len(cc) - len(bcc)) :
             \E from \in FromVals, subject \in SubjectVals, text \in TextVals,
                campaigns \in CampaignLists, decorated \in BOOLEAN :
                LET m == [NewMessage(from, subject, text, to)
                            EXCEPT !.cc = cc, !.bcc = bcc, !.tags = tags,
                                   !.campaigns = campaigns]
                IN  msg = IF decorated THEN Decorated(m) ELSE m
    /\ hist = NoHistory(<<>>)
    /\ Idle

CallValidateMessage ==
    /\ out = "-"
    /\ out' = Bool(validateMessage(arg, msg))
    /\ UNCHANGED <<msg, hist, last, mes, id, err, calls, pc, reply, wire,
                   files, arg, scope>>

SpecValidate == InitValidate /\ [][CallValidateMessage]_vars

-----------------------------------------------------------------------------
(* Properties *)

\* the values a payload carries under one wire name, in payload order
RECURSIVE ValuesOf(_, _)
ValuesOf(p, name) ==
    IF p = <<>> THEN <<>>
    ELSE (IF Head(p).name = name THEN <<Head(p).value>> ELSE <<>>)
           \o ValuesOf(Tail(p), name)

WireNames(p) == {p[i].name : i \in DOMAIN p}

\* the most recent call on the Message was a Send: no mutator was called
\* since, so the Message is the one that Send was given
SendCalled == last.op \in {"Send", "SendNil"}
\* the pointer that Send was given
SentRef == IF last.op = "SendNil" THEN "nil" ELSE "msg"
\* the most recent call was a Send that handed a payload to the transport
\* (it may be waiting for the answer still)
Transmitted == last.op = "Send" /\ calls = 1

HasEmpty(list) == \E i \in DOMAIN list.elems : list.elems[i] = ""

\* C1: a Send of a message (or of nil) that validateMessage rejects returns
\* at once with a non-nil error, an empty status and an empty id, and does not
\* invoke the transport: no payload and no file is handed to it.
C1_InvalidSendFails ==
    (SendCalled /\ ~validateMessage(SentRef, msg))
        => /\ pc = "idle"
           /\ err # NilError
           /\ mes = ""
           /\ id = ""
           /\ calls = 0
           /\ wire = <<>>
           /\ files = <<>>

\* a Send on a Message whose text is missing has returned the validation error
C1_Witness ==
    /\ last.op = "Send"
    /\ msg.from # ""
    /\ msg.text = ""
    /\ validateStringList(msg.to, TRUE)
    /\ err = "Message not valid"
    /\ calls = 0

\* one tri-state option: its flag and value in the Message follow the calls of
\* its own setter only, and a transmitted payload carries its wire field iff
\* the setter was ever called, with yes/no after the most recent argument
TriState(flag, value, called, name) ==
    /\ flag <=> (called # "never")
    /\ (called = "TRUE") => value
    /\ (called = "FALSE") => ~value
    /\ Transmitted =>
         ValuesOf(wire, name) =
            CASE called = "never" -> <<>>
              [] called = "TRUE"  -> <<"yes">>
              [] OTHER            -> <<"no">>

\* C3: for dkim, tracking, trackingClicks and trackingOpens, after any sequence
\* of calls the payload of a Send carries the option's wire field iff its
\* setter was called at least once, with "yes" or "no" after the argument of
\* the most recent call; a setter of one option leaves the others alone.
C3_TriStateOptions ==
    /\ TriState(msg.dkimSet, msg.dkim, hist.dkim, "o:dkim")
    /\ TriState(msg.trackingSet, msg.tracking, hist.tracking, "o:tracking")
    /\ TriState(msg.trackingClicksSet, msg.trackingClicks,
                hist.trackingClicks, "o:tracking-clicks")
    /\ TriState(msg.trackingOpensSet, msg.trackingOpens,
                hist.trackingOpens, "o:tracking-opens")

\* SetTrackingOpens(false) was called, no other setter was, and the payload
\* sent says o:tracking-opens = no and has none of the other three fields
C3_Witness ==
    /\ Transmitted
    /\ hist.trackingOpens = "FALSE"
    /\ hist.dkim = "never"
    /\ hist.tracking = "never"
    /\ hist.trackingClicks = "never"
    /\ ValuesOf(wire, "o:tracking-opens") = <<"no">>
    /\ WireNames(wire) \cap {"o:dkim", "o:tracking", "o:tracking-clicks"} = {}

\* C5: a Send of a valid Message invokes the transport exactly once and
\* waits for it; when it returns, whatever was called on the Message during
\* the wait, on a transport error it returns that error with status and id
\* empty, on success it returns the message and id of the response with a nil
\* error.  Status or id is non-empty only with a nil error.
C5_SendFollowsTransport ==
    /\ (last.op = "Send" /\ validateFields(msg)) => calls = 1
    /\ calls \in {0, 1}
    /\ (pc = "posted") => (calls = 1 /\ mes = "" /\ id = "")
    /\ (pc = "idle" /\ calls = 1) =>
          /\ reply \in TransportOutcomes
          /\ err = reply.err
          /\ (reply.err # NilError) => (mes = "" /\ id = "")
          /\ (reply.err = NilError) => (mes = reply.message /\ id = reply.id)
    /\ (mes # "" \/ id # "") => err = NilError

\* a Send returned the answer of the transport after a cc was added to the
\* Message during the wait
C5_Witness ==
    /\ pc = "idle"
    /\ calls = 1
    /\ last.op = "Mutator"
    /\ msg.cc.elems = <<"b">>
    /\ ValuesOf(wire, "cc") = <<>>
    /\ mes = "Queued"
    /\ id = "abc123"
    /\ err = NilError

\* a list with at least one entry and no empty entry
Filled(list) == ~list.nil /\ len(list) >= 1 /\ ~HasEmpty(list)

\* C7: validateStringList(list, requireOne) is true exactly when the list is
\* absent and requireOne is false, or the list is present with at least one
\* entry and no empty entry; a present list with no entry is rejected whatever
\* requireOne is, an absent one is rejected when requireOne is true.
C7_ValidateStringList ==
    (out # "-") =>
        /\ (out = "true") <=>
              \/ arg.list.nil /\ ~arg.requireOne
              \/ Filled(arg.list)
        /\ (~arg.list.nil /\ len(arg.list) = 0) => out = "false"
        /\ (arg.list.nil /\ arg.requireOne) => out = "false"

\* a present list with no entry was rejected although no entry was required
C7_Witness ==
    /\ out = "false"
    /\ ~arg.list.nil
    /\ len(arg.list) = 0
    /\ ~arg.requireOne

\* an optional list as validateMessage wants it: absent, or without an empty
\* entry
AbsentOrNoEmpty(list) == list.nil \/ ~HasEmpty(list)

\* C2: validateMessage accepts exactly the non-nil messages with a non-empty
\* from, a to of at least one entry and no empty entry, cc, bcc and tags each
\* absent or without an empty entry, campaigns absent or without an empty
\* entry and of at most 3 entries, and a non-empty text; subject, html and the
\* other fields do not enter.
C2_ValidateMessage ==
    (out # "-") =>
        ((out = "true") <=>
            /\ arg = "msg"
            /\ msg.from # ""
            /\ len(msg.to) >= 1 /\ ~HasEmpty(msg.to)
            /\ AbsentOrNoEmpty(msg.cc)
            /\ AbsentOrNoEmpty(msg.bcc)
            /\ AbsentOrNoEmpty(msg.tags)
            /\ AbsentOrNoEmpty(msg.campaigns) /\ len(msg.campaigns) <= 3
            /\ msg.text # "")

\* a message with an empty subject, no tags, a bcc and the other fields set
\* was accepted with 3 campaigns
C2_Witness ==
    /\ out = "true"
    /\ arg = "msg"
    /\ msg.subject = ""
    /\ msg.html # ""
    /\ msg.tags.nil
    /\ msg.cc.nil
    /\ Filled(msg.bcc)
    /\ len(msg.campaigns) = 3

\* the JSON text of a value that can be encoded
JsonText(val) ==
    CASE val.kind = "string" -> "\"" \o val.v \o "\""
      [] val.kind = "number" -> val.v

Encodable(val) == val.kind \in {"string", "number"}

\* the step is a call AddVariable(last'.variable, last'.value)
AddVariableStep ==
    IF ~Encodable(last'.value)
    THEN /\ last'.err # NilError
         /\ msg' = msg
    ELSE /\ last'.err = NilError
         /\ ~msg'.variables.nil
         /\ DOMAIN msg'.variables.m = DOMAIN msg.variables.m \cup {last'.variable}
         /\ \A k \in DOMAIN msg'.variables.m :
               msg'.variables.m[k] =
                  IF k = last'.variable THEN JsonText(last'.value)
                  ELSE msg.variables.m[k]
         /\ msg' = [msg EXCEPT !.variables = msg'.variables]

\* every variable of the Message holds the JSON text of an encodable value,
\* and a transmitted payload carries exactly the stored variables
VariablesSound ==
    /\ msg.variables.nil => DOMAIN msg.variables.m = {}
    /\ \A k \in DOMAIN msg.variables.m :
          \E val \in JsonVals : Encodable(val) /\ msg.variables.m[k] = JsonText(val)
    /\ Transmitted =>
          \A k \in VarNames :
             ValuesOf(wire, "v:" \o k) =
                IF k \in DOMAIN msg.variables.m THEN <<msg.variables.m[k]>>
                ELSE <<>>

\* C4: AddVariable with a value that cannot be encoded as JSON returns an error
\* and leaves the Message as it was (no map created, an earlier value under
\* the name kept), so that no Send emits a v: value for it; with an encodable
\* value it returns no error and stores the JSON text under the name,
\* replacing an earlier value.
C4_AddVariable ==
    /\ []VariablesSound
    /\ [][last'.op = "AddVariable" => AddVariableStep]_vars

\* AddVariable has just failed on a Message that holds an earlier value
\* under the same name
C4_Witness ==
    /\ last.op = "AddVariable"
    /\ last.err # NilError
    /\ ~Encodable(last.value)
    /\ last.variable \in DOMAIN msg.variables.m

\* two payloads carry the same values under every wire name
SamePayload(p, q) ==
    \A n \in WireNames(p) \cup WireNames(q) : ValuesOf(p, n) = ValuesOf(q, n)

\* C6: Send leaves every field of the Message as it was, when it is called
\* and when it returns, whatever its outcome; two Sends of the Message in a
\* row reach the same validation verdict and serialize the same payload.
C6_SendLeavesMessage ==
    /\ [][last'.op \in {"Send", "SendNil"} => msg' = msg]_vars
    /\ [][(pc = "posted" /\ pc' = "idle") => msg' = msg]_vars
    /\ [][(last.op = "Send" /\ last'.op = "Send") =>
            /\ calls' = calls
            /\ (err' = "Message not valid") <=> (err = "Message not valid")
            /\ SamePayload(wire, wire')
            /\ files' = files]_vars

\* a Message with an attachment and a header was sent with success
C6_Witness ==
    /\ Transmitted
    /\ pc = "idle"
    /\ reply.err = NilError
    /\ err = NilError
    /\ len(msg.attachments) = 1
    /\ ~msg.headers.nil

\* the seven lists of a Message, each with its wire name
ListFields == {"to", "cc", "bcc", "tags", "campaigns", "attachments", "inlines"}

\* the step appended one element to list f, by hist, and did nothing else to
\* the Message
AppendedOnly(f) ==
    /\ Len(hist'[f]) = Len(hist[f]) + 1
    /\ SubSeq(hist'[f], 1, Len(hist[f])) = hist[f]
    /\ msg' = [msg EXCEPT ![f] = [nil |-> FALSE, elems |-> hist'[f]]]

\* every list of the Message holds the elements passed for it, in call order,
\* and a transmitted payload carries them under the list's wire name
ListsInOrder ==
    /\ \A f \in ListFields : msg[f].elems = hist[f]
    /\ Transmitted =>
          /\ ValuesOf(wire, "to") = hist.to
          /\ ValuesOf(wire, "cc") = hist.cc
          /\ ValuesOf(wire, "bcc") = hist.bcc
          /\ ValuesOf(wire, "o:tag") = hist.tags
          /\ ValuesOf(wire, "o:campaign") = hist.campaigns
          /\ ValuesOf(files, "attachment") = hist.attachments
          /\ ValuesOf(files, "inline") = hist.inlines

\* C8: the payload of a Send of a valid Message carries under to, cc, bcc,
\* o:tag, o:campaign, attachment and inline one entry per element passed, in
\* the order of the calls (the constructor's recipients first), duplicates
\* kept; an append to one list changes no other list or field.
C8_ListsOnTheWire ==
    /\ []ListsInOrder
    /\ [][\A f \in ListFields : (hist'[f] # hist[f]) => AppendedOnly(f)]_vars

\* a payload was sent with two equal cc entries after one constructor
\* recipient
C8_Witness ==
    /\ Transmitted
    /\ hist.given = 1
    /\ hist.cc = <<"b", "b">>
    /\ ValuesOf(wire, "cc") = <<"b", "b">>
    /\ ValuesOf(wire, "to") = hist.to

\* the timestamp on the wire for each time passed to SetDeliveryTime
Stamp(t) ==
    IF t.zone = "UTC" THEN "Tue, 5 Jan 2021 09:04:05 UTC"
    ELSE "Fri, 31 Dec 2021 23:59:00 MST"

\* the schedule of the Message is that of the most recent SetDeliveryTime
\* call, and a transmitted payload carries o:deliverytime iff there is one
ScheduleKept ==
    /\ msg.deliveryTime.nil <=> ~hist.deliveryTime.called
    /\ hist.deliveryTime.called => msg.deliveryTime.at = hist.deliveryTime.at
    /\ Transmitted =>
          ValuesOf(wire, "o:deliverytime") =
             IF hist.deliveryTime.called THEN <<Stamp(hist.deliveryTime.at)>>
             ELSE <<>>

\* C9: SetDeliveryTime replaces an earlier schedule and no call removes one:
\* once set the delivery time stays set, every later Send of the Message while
\* valid emits o:deliverytime with the time of the most recent call, and a
\* Message it was never called on never emits o:deliverytime.
C9_DeliveryTime ==
    /\ []ScheduleKept
    /\ [][~msg.deliveryTime.nil => ~msg'.deliveryTime.nil]_vars

\* a payload was sent with the second of two schedules set on the Message
C9_Witness ==
    /\ Transmitted
    /\ hist.deliveryTime.replaced
    /\ hist.deliveryTime.at.zone = "MST"
    /\ ValuesOf(wire, "o:deliverytime") = <<"Fri, 31 Dec 2021 23:59:00 MST">>

\* invalid for good: too many campaigns, an empty entry in a validated list,
\* or an empty from or text
InvalidForGood(m) ==
    \/ len(m.campaigns) > 3
    \/ HasEmpty(m.to) \/ HasEmpty(m.cc) \/ HasEmpty(m.bcc)
    \/ HasEmpty(m.tags) \/ HasEmpty(m.campaigns)
    \/ m.from = ""
    \/ m.text = ""

\* the lists whose growth can invalidate a Message
Validated == {"to", "cc", "bcc", "tags", "campaigns"}

\* C10: a Message with more than 3 campaigns, or an empty entry in to, cc, bcc,
\* tags or campaigns, or an empty from or text, is never valid again whatever
\* is called on it, and every later Send of it returns the validation error
\* without transmitting; a valid Message turns invalid only by AddRecipient,
\* AddCC, AddBCC, AddTag or AddCampaign.
C10_InvalidForGood ==
    /\ [](InvalidForGood(msg) =>
            /\ ~validateFields(msg)
            /\ (last.op = "Send") => (err = "Message not valid" /\ calls = 0))
    /\ [][InvalidForGood(msg) => InvalidForGood(msg')]_vars
    /\ [][(validateFields(msg) /\ ~validateFields(msg')) =>
            \E f \in Validated : Len(hist'[f]) = Len(hist[f]) + 1]_vars

\* a Message complete but for a fourth campaign was given a cc after that
\* campaign, then sent and refused
C10_Witness ==
    /\ last.op = "Send"
    /\ len(msg.campaigns) = 4
    /\ ~HasEmpty(msg.campaigns)
    /\ hist.beyond
    /\ Filled(msg.cc)
    /\ msg.from # ""
    /\ msg.text # ""
    /\ Filled(msg.to)
    /\ err = "Message not valid"
    /\ calls = 0

====
